---- MODULE Spec2Model ----
(***************************************************************************)
(* A model of var.py: the lazy expression graph (Operation, Expression,    *)
(* Constraint, Array, Variable), its value evaluation, its variable        *)
(* discovery, and the Problem adapter that hands closures to an external   *)
(* optimizer.                                                              *)
(*                                                                         *)
(* Python objects live in `heap`, a sequence of records; an object's       *)
(* identity is its index in the heap (its handle).  Numbers are integers;  *)
(* a numpy array is a sequence of scalars.  Python lists are 0-indexed and *)
(* TLA+ sequences 1-indexed, so list[i] is modelled as seq[i + 1].         *)
(***************************************************************************)
EXTENDS Integers, Sequences, FiniteSets, TLC

\* Bounds of the model.
MaxObjs == 3
MaxProblems == 1
MaxConcProblems == 2

\* Input sets: the numbers a user or the optimizer supplies.
Vals == {0, 1, 2}
Lits == {1}
ArrLens == {1, 2}
DefaultTol == "1e-6"
Tols == {DefaultTol, "1e-3"}
ConLens == {1, 2}
Threads == {1, 2}

VARIABLES
    heap,       \* the objects created so far, by handle
    _n,         \* Variable._n
    _vars,      \* Variable._vars: handles of the registered Variables
    written,    \* history: per handle, the value most recently written to it
    problems,   \* the Problem objects constructed so far
    ctor,       \* history: per Problem, the arguments its constructor was given
    optimizer,  \* per Problem, the pending call of scipy.optimize.minimize
    thr,        \* per thread, the closure call it is in the middle of
    ret         \* the last call made and what it returned or raised

vars == <<heap, _n, _vars, written, problems, ctor, optimizer, thr, ret>>

-----------------------------------------------------------------------------
(* Values.  A scalar is None, a number or NaN; a value is a scalar, an     *)
(* array of scalars, or a raised exception.  Every record carries every    *)
(* field so that any two of them can be compared.                          *)

SNone == [t |-> "None", n |-> 0]
SNum(n) == [t |-> "num", n |-> n]
SNaN == [t |-> "nan", n |-> 0]

Scalars == {SNone} \cup {SNum(n) : n \in Vals}

NoneV == [t |-> "None", n |-> 0, a |-> <<>>, e |-> ""]
Num(n) == [t |-> "num", n |-> n, a |-> <<>>, e |-> ""]
NaN == [t |-> "nan", n |-> 0, a |-> <<>>, e |-> ""]
Arr(s) == [t |-> "arr", n |-> 0, a |-> s, e |-> ""]
Err(e) == [t |-> "err", n |-> 0, a |-> <<>>, e |-> e]

ToValue(s) == [t |-> s.t, n |-> s.n, a |-> <<>>, e |-> ""]
ToScalar(v) == [t |-> v.t, n |-> v.n]
IsScalar(v) == v.t \in {"None", "num", "nan"}

\* Operands of a node: absent (None), a plain number, or a reference to an object.
NoneOpd == [t |-> "none", v |-> 0]
NumOpd(n) == [t |-> "num", v |-> n]
Ref(h) == [t |-> "ref", v |-> h]

Handles(hp) == 1..Len(hp)
Operands(hp) == {Ref(h) : h \in Handles(hp)} \cup {NumOpd(n) : n \in Lits}

VarNames == <<"var0", "var1", "var2", "var3", "var4", "var5">>

-----------------------------------------------------------------------------
(* Objects.                                                                *)

Obj(kind, id, name, value, left, right, method, symbol, elems) ==
    [kind |-> kind, id |-> id, name |-> name, value |-> value, left |-> left,
     right |-> right, method |-> method, symbol |-> symbol, elems |-> elems]

\* Expression.__init__
Expression(left, right, method, symbol) ==
    Obj("Expression", -1, "", SNone, left, right, method, symbol, <<>>)

\* Constraint inherits Expression.__init__
Constraint(left, right, method, symbol) ==
    Obj("Constraint", -1, "", SNone, left, right, method, symbol, <<>>)

\* Array.__init__: the elements in flattened order (its shape is their number)
Array(value) ==
    Obj("Array", -1, "", SNone, NoneOpd, NoneOpd, "", "", value)

\* Variable.__init__, the fields of the new object: value, then _id from
\* Variable._n, and _name derived from the id (no name is passed)
Variable(n, value) ==
    Obj("Variable", n, VarNames[n + 1], value, NoneOpd, NoneOpd, "", "", <<>>)

\* isinstance
IsVariable(o) == o.kind = "Variable"
IsArray(o) == o.kind = "Array"
IsConstraint(o) == o.kind = "Constraint"
IsExpression(o) == o.kind \in {"Expression", "Constraint", "Array"}

VarHandles(hp) == {h \in Handles(hp) : IsVariable(hp[h])}
ConstraintHandles(hp) == {h \in Handles(hp) : IsConstraint(hp[h])}

-----------------------------------------------------------------------------
(* The combining functions (the lambdas given to Expression), applied as   *)
(* numpy applies them: element by element, a scalar or a one-element array *)
(* broadcast against a longer one.                                         *)

Unary == {"neg", "abs"}

AbsInt(n) == IF n < 0 THEN -n ELSE n

\* Python raises TypeError for arithmetic or ordering on None
ScalarRaises(m, x, y) ==
    CASE m \in Unary -> y.t = "None"
      [] m = "eq" -> FALSE
      [] OTHER -> x.t = "None" \/ y.t = "None"

ScalarApply(m, x, y) ==
    CASE m = "eq" ->
            SNum(IF x.t = "nan" \/ y.t = "nan" THEN 0 ELSE IF x = y THEN 1 ELSE 0)
      [] m = "le" ->
            SNum(IF x.t = "nan" \/ y.t = "nan" THEN 0 ELSE IF x.n <= y.n THEN 1 ELSE 0)
      [] m = "ge" ->
            SNum(IF x.t = "nan" \/ y.t = "nan" THEN 0 ELSE IF x.n >= y.n THEN 1 ELSE 0)
      [] m = "neg" -> IF y.t = "nan" THEN SNaN ELSE SNum(-y.n)
      [] m = "abs" -> IF y.t = "nan" THEN SNaN ELSE SNum(AbsInt(y.n))
      [] x.t = "nan" \/ y.t = "nan" -> SNaN
      [] m = "add" -> SNum(x.n + y.n)
      [] m = "sub" -> SNum(x.n - y.n)
      [] m = "mul" -> SNum(x.n * y.n)

AsSeq(v) == IF v.t = "arr" THEN v.a ELSE <<ToScalar(v)>>

At(s, i) == IF Len(s) = 1 THEN s[1] ELSE s[i]

\* self._method(left_val, right_val)
Apply(m, x, y) ==
    LET xs == IF m \in Unary THEN <<SNone>> ELSE AsSeq(x)
        ys == AsSeq(y)
        len == IF Len(xs) > Len(ys) THEN Len(xs) ELSE Len(ys)
        isArr == (m \notin Unary /\ x.t = "arr") \/ y.t = "arr"
    IN  IF Len(xs) # Len(ys) /\ Len(xs) # 1 /\ Len(ys) # 1
        THEN Err("ValueError")
        ELSE IF \E i \in 1..len : ScalarRaises(m, At(xs, i), At(ys, i))
        THEN Err("TypeError")
        ELSE IF isArr
        THEN Arr([i \in 1..len |-> ScalarApply(m, At(xs, i), At(ys, i))])
        ELSE ToValue(ScalarApply(m, xs[1], ys[1]))

-----------------------------------------------------------------------------
(* Evaluation.                                                             *)

RECURSIVE value_of(_, _), value(_, _)

\* value_of, on one operand
value_of(opd, hp) ==
    CASE opd.t = "ref" -> value(opd.v, hp)
      [] opd.t = "num" -> Num(opd.v)
      [] OTHER -> NoneV

\* Array.value: value_of element by element.  numpy.vectorize takes the
\* result's dtype from the first element's result: object when that is None
\* (then every result is kept as it is), float otherwise (then a later None
\* becomes NaN).  An element whose value is itself an array does not fit.
Array_value(h, hp) ==
    LET vs == [i \in 1..Len(hp[h].elems) |-> value_of(hp[h].elems[i], hp)]
        first == vs[1]
    IN  IF \E i \in 1..Len(vs) : vs[i].t = "err"
        THEN vs[CHOOSE i \in 1..Len(vs) :
                    vs[i].t = "err" /\ \A j \in 1..(i - 1) : vs[j].t # "err"]
        ELSE IF \E i \in 1..Len(vs) : vs[i].t = "arr"
        THEN Err("ValueError")
        ELSE Arr([i \in 1..Len(vs) |->
                    IF first.t # "None" /\ vs[i].t = "None"
                    THEN SNaN ELSE ToScalar(vs[i])])

\* Expression.value
Expression_value(h, hp) ==
    LET left_val == value_of(hp[h].left, hp)
        right_val == value_of(hp[h].right, hp)
    IN  IF left_val.t = "err" THEN left_val
        ELSE IF right_val.t = "err" THEN right_val
        ELSE Apply(hp[h].method, left_val, right_val)

\* the value property, dispatched on the object's class
value(h, hp) ==
    CASE IsVariable(hp[h]) -> ToValue(hp[h].value)
      [] IsArray(hp[h]) -> Array_value(h, hp)
      [] OTHER -> Expression_value(h, hp)

-----------------------------------------------------------------------------
(* Variable discovery.  A call returns a list of handles or raises.        *)

Returned(vs) == [ok |-> TRUE, e |-> "", vars |-> vs]
Raised(e) == [ok |-> FALSE, e |-> e, vars |-> <<>>]

RECURSIVE SortedSeq(_)
\* iteration over a Python set of small ints
SortedSeq(S) ==
    IF S = {} THEN <<>>
    ELSE LET m == CHOOSE x \in S : \A y \in S : x <= y
         IN  <<m>> \o SortedSeq(S \ {m})

\* The names bound inside Expression.variables when its loop condition is
\* first evaluated (its parameter and the three assignments before the loop)
\* and the names bound at module level or built in.
LocalNames == {"self", "update", "list_expr", "list_var"}
GlobalNames == {"np", "minimize", "sum", "max", "min", "exp", "log", "value_of",
                "Operation", "Expression", "Constraint", "Array", "Variable",
                "Problem", "len", "isinstance", "set"}
IsBound(name) == name \in LocalNames \cup GlobalNames

RECURSIVE update(_, _, _, _, _), Walk(_, _, _, _), Array_variables(_, _, _),
          Expression_variables(_, _, _), variables(_, _, _)

\* the helper `update` of Expression.variables
update(val, list_var, list_expr, hp, reg) ==
    CASE val.t = "ref" /\ IsArray(hp[val.v]) ->
            LET r == Array_variables(val.v, hp, reg)
            IN  IF r.ok
                THEN [ok |-> TRUE, e |-> "",
                      list_var |-> list_var \cup
                                   {hp[r.vars[i]].id : i \in 1..Len(r.vars)},
                      list_expr |-> list_expr]
                ELSE [ok |-> FALSE, e |-> r.e,
                      list_var |-> list_var, list_expr |-> list_expr]
      [] val.t = "ref" /\ IsExpression(hp[val.v]) ->
            [ok |-> TRUE, e |-> "", list_var |-> list_var,
             list_expr |-> Append(list_expr, val.v)]
      [] val.t = "ref" /\ IsVariable(hp[val.v]) ->
            [ok |-> TRUE, e |-> "", list_var |-> list_var \cup {hp[val.v].id},
             list_expr |-> list_expr]
      [] OTHER ->
            [ok |-> TRUE, e |-> "", list_var |-> list_var, list_expr |-> list_expr]

\* the loop body of Expression.variables: pop an expression, update with its
\* left operand, then with its right; afterwards look the ids up in the registry
Walk(list_expr, list_var, hp, reg) ==
    IF Len(list_expr) = 0
    THEN Returned([i \in 1..Cardinality(list_var) |->
                        reg[SortedSeq(list_var)[i] + 1]])
    ELSE LET expression == list_expr[Len(list_expr)]
             popped == SubSeq(list_expr, 1, Len(list_expr) - 1)
             l == update(hp[expression].left, list_var, popped, hp, reg)
             r == update(hp[expression].right, l.list_var, l.list_expr, hp, reg)
         IN  IF ~l.ok THEN Raised(l.e)
             ELSE IF ~r.ok THEN Raised(r.e)
             ELSE Walk(r.list_expr, r.list_var, hp, reg)

\* Expression.variables: the loop condition reads l_expr, a name that nothing
\* binds (the worklist is called list_expr), so the first evaluation of the
\* condition raises NameError
Expression_variables(h, hp, reg) ==
    IF ~IsBound("l_expr")
    THEN Raised("NameError")
    ELSE Walk(<<h>>, {}, hp, reg)

\* Array.variables: a Variable element is appended, an Expression element's
\* variables() are appended in turn; nothing removes a repeated Variable
Array_variables(h, hp, reg) ==
    LET elems == hp[h].elems
        Part(i) ==
            CASE elems[i].t = "ref" /\ IsVariable(hp[elems[i].v]) ->
                    Returned(<<elems[i].v>>)
              [] elems[i].t = "ref" /\ IsExpression(hp[elems[i].v]) ->
                    variables(elems[i].v, hp, reg)
              [] OTHER -> Returned(<<>>)
        Upto[i \in 0..Len(elems)] ==
            IF i = 0 THEN Returned(<<>>)
            ELSE IF ~Upto[i - 1].ok THEN Upto[i - 1]
            ELSE IF ~Part(i).ok THEN Part(i)
            ELSE Returned(Upto[i - 1].vars \o Part(i).vars)
    IN  Upto[Len(elems)]

\* obj.variables(), dispatched on the object's class; Variable defines none
variables(h, hp, reg) ==
    CASE IsVariable(hp[h]) -> Raised("AttributeError")
      [] IsArray(hp[h]) -> Array_variables(h, hp, reg)
      [] OTHER -> Expression_variables(h, hp, reg)

-----------------------------------------------------------------------------
(* Calls and their results.                                                *)

Ret(op, h, x, val, vs) ==
    [op |-> op, h |-> h, i |-> 0, x |-> x, val |-> val, vars |-> vs,
     dirty |-> FALSE]
RetI(op, h, i, x, val, dirty) ==
    [op |-> op, h |-> h, i |-> i, x |-> x, val |-> val, vars |-> <<>>,
     dirty |-> dirty]

\* an entry of the history of writes: the value and what wrote it
Wrote(v, by) == [t |-> v.t, n |-> v.n, by |-> by]
NoRet == Ret("", 0, <<>>, NoneV, <<>>)

\* a setter that keeps a value once one is set; C2 tells it from the real one
value_setter_once(o, v) == IF o.value = SNone THEN [o EXCEPT !.value = v] ELSE o

\* the value setter of Variable
value_setter(o, v) == [o EXCEPT !.value = v]

\* a counter that is never advanced; C6 tells it from the real one
NextN_stuck(n) == n

\* Variable._n += 1
NextN(n) == n + 1

\* Variable._vars.append(self)
Register(reg, h) == Append(reg, h)

IdleThread == [pc |-> "idle", p |-> 0, x |-> <<>>, dirty |-> FALSE]

Init ==
    /\ heap = <<>>
    /\ _n = 0
    /\ _vars = <<>>
    /\ written = <<>>
    /\ problems = <<>>
    /\ ctor = <<>>
    /\ optimizer = <<>>
    /\ thr = [t \in Threads |-> IdleThread]
    /\ ret = NoRet

ProblemVars == <<problems, ctor, optimizer, thr>>

\* a new node is allocated and returned
NewNode(op, o) ==
    /\ Len(heap) < MaxObjs
    /\ heap' = Append(heap, o)
    /\ written' = Append(written, Wrote(SNone, ""))
    /\ ret' = Ret(op, Len(heap) + 1, <<>>, NoneV, <<>>)
    /\ UNCHANGED <<_n, _vars, ProblemVars>>

\* Variable(value=v)
NewVariable ==
    \E v \in Scalars :
        /\ Len(heap) < MaxObjs
        /\ heap' = Append(heap, value_setter(Variable(_n, SNone), v))
        /\ written' = Append(written, Wrote(v, "init"))
        /\ _n' = NextN(_n)
        /\ _vars' = Register(_vars, Len(heap) + 1)
        /\ ret' = Ret("Variable", Len(heap) + 1, <<>>, NoneV, <<>>)
        /\ UNCHANGED ProblemVars

\* v.value = n
SetValue ==
    \E h \in VarHandles(heap), v \in Scalars :
        /\ heap' = [heap EXCEPT ![h] = value_setter(heap[h], v)]
        /\ written' = [written EXCEPT ![h] = Wrote(v, "setter")]
        /\ ret' = Ret("value.setter", h, <<>>, NoneV, <<>>)
        /\ UNCHANGED <<_n, _vars, ProblemVars>>

\* Array(value)
NewArray ==
    \E len \in ArrLens : \E elems \in [1..len -> Operands(heap)] :
        /\ \A i \in 1..len : elems[i].t = "ref" => ~IsArray(heap[elems[i].v])
        /\ NewNode("Array", Array(elems))

__add__ ==
    \E self \in Handles(heap), right \in Operands(heap) :
        NewNode("__add__", Expression(Ref(self), right, "add", "+"))

__radd__ ==
    \E self \in Handles(heap), right \in Operands(heap) :
        NewNode("__radd__", Expression(Ref(self), right, "add", "+"))

__sub__ ==
    \E self \in Handles(heap), right \in Operands(heap) :
        NewNode("__sub__", Expression(Ref(self), right, "sub", "-"))

__rsub__ ==
    \E self \in Handles(heap), left \in Operands(heap) :
        NewNode("__rsub__", Expression(left, Ref(self), "sub", "-"))

__mul__ ==
    \E self \in Handles(heap), right \in Operands(heap) :
        NewNode("__mul__", Expression(right, Ref(self), "mul", "*"))

__rmul__ ==
    \E self \in Handles(heap), right \in Operands(heap) :
        NewNode("__rmul__", Expression(right, Ref(self), "mul", "*"))

__pos__ ==
    \E self \in Handles(heap) :
        /\ ret' = Ret("__pos__", self, <<>>, NoneV, <<>>)
        /\ UNCHANGED <<heap, written, _n, _vars, ProblemVars>>

__neg__ ==
    \E self \in Handles(heap) :
        NewNode("__neg__", Expression(NoneOpd, Ref(self), "neg", "-{y}"))

__abs__ ==
    \E self \in Handles(heap) :
        NewNode("__abs__", Expression(NoneOpd, Ref(self), "abs", "abs({y})"))

\* the Constraint that __eq__, __le__ and __ge__ build
Operation_eq(self, right) == Constraint(Ref(self), right, "eq", "==")
Operation_le(self, right) == Constraint(Ref(self), right, "le", "<=")
Operation_ge(self, right) == Constraint(Ref(self), right, "ge", ">=")
\* __lt__ aliased to the wrong method; C5 tells it from the real one
Operation_lt_ge(self, right) == Operation_ge(self, right)

\* __lt__ returns self.__le__(right), __gt__ returns self.__ge__(right)
Operation_lt(self, right) == Operation_le(self, right)
Operation_gt(self, right) == Operation_ge(self, right)

__eq__ ==
    \E self \in Handles(heap), right \in Operands(heap) :
        NewNode("__eq__", Operation_eq(self, right))

__le__ ==
    \E self \in Handles(heap), right \in Operands(heap) :
        NewNode("__le__", Operation_le(self, right))

__lt__ ==
    \E self \in Handles(heap), right \in Operands(heap) :
        NewNode("__lt__", Operation_lt(self, right))

__ge__ ==
    \E self \in Handles(heap), right \in Operands(heap) :
        NewNode("__ge__", Operation_ge(self, right))

__gt__ ==
    \E self \in Handles(heap), right \in Operands(heap) :
        NewNode("__gt__", Operation_gt(self, right))

\* Constraint.is_equality, is_greater_than, is_less_than
is_equality(o) == o.symbol = "=="
is_greater_than(o) == o.symbol = ">="
is_less_than(o) == o.symbol = "<="

\* reading obj.value
GetValue ==
    \E h \in Handles(heap) :
        /\ ret' = Ret("value", h, <<>>, value(h, heap), <<>>)
        /\ UNCHANGED <<heap, written, _n, _vars, ProblemVars>>

\* calling expr.variables()
CallVariables ==
    \E h \in Handles(heap) :
        /\ IsExpression(heap[h])
        /\ LET r == variables(h, heap, _vars)
           IN  ret' = Ret("variables", h, <<>>,
                          IF r.ok THEN NoneV ELSE Err(r.e), r.vars)
        /\ UNCHANGED <<heap, written, _n, _vars, ProblemVars>>

Arithmetic ==
    \/ __add__ \/ __radd__ \/ __sub__ \/ __rsub__ \/ __mul__ \/ __rmul__
    \/ __pos__ \/ __neg__ \/ __abs__

Comparison ==
    \/ __eq__ \/ __le__ \/ __lt__ \/ __ge__ \/ __gt__

NextGraph ==
    \/ NewVariable \/ SetValue \/ NewArray
    \/ Arithmetic \/ Comparison
    \/ GetValue \/ CallVariables

SpecGraph == Init /\ [][NextGraph]_vars

-----------------------------------------------------------------------------
(* Problem.                                                                *)

\* the `constraints` argument of Problem: None, one Constraint, or a list
NoConstraints == [form |-> "none", items |-> <<>>]
OneConstraint(c) == [form |-> "single", items |-> <<c>>]
ConstraintList(cs) == [form |-> "list", items |-> cs]

ConstraintArgs(hp) ==
    {NoConstraints}
    \cup {OneConstraint(c) : c \in ConstraintHandles(hp)}
    \cup UNION {{ConstraintList(cs) : cs \in [1..len -> ConstraintHandles(hp)]} :
                    len \in ConLens}

\* Problem._build_constraints: one closure per constraint, by its kind; a
\* closure is its tag, the constraint it captured and the difference it returns
_build_constraints(constraints, hp) ==
    LET Closure(c) ==
            CASE is_equality(hp[c]) ->
                    <<[type |-> "eq", constraint |-> c, body |-> "left-right"]>>
              [] is_greater_than(hp[c]) ->
                    <<[type |-> "ineq", constraint |-> c, body |-> "left-right"]>>
              [] is_less_than(hp[c]) ->
                    <<[type |-> "ineq", constraint |-> c, body |-> "right-left"]>>
              [] OTHER -> <<>>
        Upto[i \in 0..Len(constraints)] ==
            IF i = 0 THEN <<>> ELSE Upto[i - 1] \o Closure(constraints[i])
    IN  Upto[Len(constraints)]

\* Problem.__init__, once obj.variables() has returned: the list of constraints
\* is the argument's items (a single Constraint wrapped, None made empty);
\* tol is not stored
Problem(obj, constraints, discovered, hp) ==
    [_obj |-> obj,
     _constraints |-> constraints,
     _variables |-> discovered,
     _constraint_funs |-> _build_constraints(constraints.items, hp)]

\* discovery that also takes the Variables the constraints compare; C10 tells
\* it from the real one
Problem_variables_all(obj, constraints, hp, reg) ==
    LET r == variables(obj, hp, reg)
        Of(opd) == IF opd.t = "ref" /\ IsVariable(hp[opd.v]) THEN <<opd.v>> ELSE <<>>
        Upto[i \in 0..Len(constraints.items)] ==
            IF i = 0 THEN <<>>
            ELSE Upto[i - 1] \o Of(hp[constraints.items[i]].left)
                             \o Of(hp[constraints.items[i]].right)
    IN  IF r.ok THEN Returned(r.vars \o Upto[Len(constraints.items)]) ELSE r

\* self._variables = obj.variables()
Problem_variables(obj, constraints, hp, reg) == variables(obj, hp, reg)

\* an assignment loop that stops one Variable short; C9 tells it from the real one
_assign_to_variables_short(hp, variables_, x) ==
    LET Upto[i \in 0..Len(variables_)] ==
            IF i = 0 THEN hp
            ELSE [Upto[i - 1] EXCEPT
                    ![variables_[i]] = value_setter(@, SNum(x[i]))]
    IN  Upto[IF Len(variables_) = 0 THEN 0 ELSE Len(variables_) - 1]

\* Problem._assign_to_variables: var.value = x[i], in the order of the list
_assign_to_variables(hp, variables_, x) ==
    LET Upto[i \in 0..Len(variables_)] ==
            IF i = 0 THEN hp
            ELSE [Upto[i - 1] EXCEPT
                    ![variables_[i]] = value_setter(@, SNum(x[i]))]
    IN  Upto[Len(variables_)]

\* the history of writes that _assign_to_variables makes
WrittenBy(w, variables_, x) ==
    [h \in 1..Len(w) |->
        IF \E i \in 1..Len(variables_) : variables_[i] = h
        THEN Wrote(SNum(x[CHOOSE i \in 1..Len(variables_) :
                        /\ variables_[i] = h
                        /\ \A j \in (i + 1)..Len(variables_) : variables_[j] # h]),
                   "assign")
        ELSE w[h]]

\* a guess that tests the value's truth, not `is None`; C7 tells it from the real one
_initial_guess_truthy(P, hp) ==
    [i \in 1..Len(P._variables) |->
        IF hp[P._variables[i]].value \in {SNone, SNum(0)}
        THEN 1 ELSE hp[P._variables[i]].value.n]

\* Problem._initial_guess
_initial_guess(P, hp) ==
    [i \in 1..Len(P._variables) |->
        IF hp[P._variables[i]].value = SNone THEN 1 ELSE hp[P._variables[i]].value.n]

\* the value of a - b for two operands, one of them an Operation: __sub__ or
\* __rsub__ builds Expression(a, b, lambda x, y: x - y, '-'), whose value is read
Difference(a, b, hp) ==
    value(Len(hp) + 1, Append(hp, Expression(a, b, "sub", "-")))

\* the closure `fun` of _build_objective_function, after its assignment
obj_fun_value(P, hp) == value(P._obj, hp)

\* closures that all return left - right; C4 tells them from the real ones
constraint_fun_value_noflip(f, hp) ==
    Difference(hp[f.constraint].left, hp[f.constraint].right, hp)

\* a closure `fun` of _build_constraints, after its assignment
constraint_fun_value(f, hp) ==
    IF f.body = "left-right"
    THEN Difference(hp[f.constraint].left, hp[f.constraint].right, hp)
    ELSE Difference(hp[f.constraint].right, hp[f.constraint].left, hp)

\* the tol argument of the call to scipy.optimize.minimize: the call passes
\* fun, x0 and constraints only, so the optimizer's tol keeps its default, None
minimize_tol(P) == "None"

\* scipy.optimize.minimize needs a scalar objective: a number, or an array of
\* one number.  With anything else, or when the objective raises, its first
\* evaluation (at x0) ends the call with an exception.
ScalarValued(val) ==
    \/ val.t \in {"num", "nan"}
    \/ val.t = "arr" /\ Len(val.a) = 1 /\ val.a[1].t \in {"num", "nan"}

\* the state of a Problem's call of the optimizer: its arguments while it runs
IdleOptimizer == [pc |-> "idle", x0 |-> <<>>, tol |-> "", constraints |-> <<>>]

Vectors(P) == [1..Len(P._variables) -> Vals]

GraphVars == <<heap, written, _n, _vars>>

\* Problem(obj, constraints, tol)
NewProblemUpTo(max, tols) ==
    \E obj \in Handles(heap), constraints \in ConstraintArgs(heap), tol \in tols :
        LET r == Problem_variables(obj, constraints, heap, _vars)
        IN  /\ Len(problems) < max
            /\ IF r.ok
               THEN /\ problems' = Append(problems,
                                          Problem(obj, constraints, r.vars, heap))
                    /\ ctor' = Append(ctor, [obj |-> obj, constraints |-> constraints,
                                             tol |-> tol])
                    /\ optimizer' = Append(optimizer, IdleOptimizer)
                    /\ ret' = Ret("Problem", Len(problems) + 1, <<>>, NoneV, r.vars)
               ELSE /\ UNCHANGED <<problems, ctor, optimizer>>
                    /\ ret' = Ret("Problem", 0, <<>>, Err(r.e), <<>>)
            /\ UNCHANGED <<GraphVars, thr>>

NewProblem == NewProblemUpTo(MaxProblems, Tols)

\* problem._initial_guess()
InitialGuess ==
    \E p \in 1..Len(problems) :
        /\ ret' = Ret("_initial_guess", p, _initial_guess(problems[p], heap),
                      NoneV, <<>>)
        /\ UNCHANGED <<GraphVars, ProblemVars>>

\* an exception raised inside a closure leaves a pending minimize() with it
AfterClosure(p, val) ==
    IF val.t = "err" /\ optimizer[p].pc = "running"
    THEN [optimizer EXCEPT ![p] = IdleOptimizer]
    ELSE optimizer

\* the objective closure called with x: assign, then evaluate
ObjFun ==
    \E p \in 1..Len(problems) : \E x \in Vectors(problems[p]) :
        LET P == problems[p]
            hp == _assign_to_variables(heap, P._variables, x)
            val == obj_fun_value(P, hp)
        IN  /\ heap' = hp
            /\ written' = WrittenBy(written, P._variables, x)
            /\ ret' = RetI("obj_fun", p, 0, x, val, FALSE)
            /\ optimizer' = AfterClosure(p, val)
            /\ UNCHANGED <<_n, _vars, problems, ctor, thr>>

\* the i-th constraint closure called with x: assign, then evaluate
ConFun ==
    \E p \in 1..Len(problems) : \E x \in Vectors(problems[p]) :
        \E i \in 1..Len(problems[p]._constraint_funs) :
            LET P == problems[p]
                hp == _assign_to_variables(heap, P._variables, x)
                val == constraint_fun_value(P._constraint_funs[i], hp)
            IN  /\ heap' = hp
                /\ written' = WrittenBy(written, P._variables, x)
                /\ ret' = RetI("constraint_fun", p, i, x, val, FALSE)
                /\ optimizer' = AfterClosure(p, val)
                /\ UNCHANGED <<_n, _vars, problems, ctor, thr>>

\* problem.minimize(), up to the optimizer's first evaluation of the objective:
\* the initial guess is computed, the optimizer is called with the objective
\* closure, the guess and the constraint closures, and calls the objective
\* closure with the guess
MinimizeCall ==
    \E p \in 1..Len(problems) :
        LET P == problems[p]
            x0 == _initial_guess(P, heap)
            hp == _assign_to_variables(heap, P._variables, x0)
            val == obj_fun_value(P, hp)
        IN  /\ optimizer[p].pc = "idle"
            /\ heap' = hp
            /\ written' = WrittenBy(written, P._variables, x0)
            /\ IF ScalarValued(val)
               THEN /\ optimizer' = [optimizer EXCEPT ![p] =
                        [pc |-> "running",
                         x0 |-> x0,
                         tol |-> minimize_tol(P),
                         constraints |-> [i \in 1..Len(P._constraint_funs) |->
                                            P._constraint_funs[i].type]]]
                    /\ ret' = Ret("minimize.call", p, x0, val, <<>>)
               ELSE /\ UNCHANGED optimizer
                    /\ ret' = Ret("minimize.call", p, x0,
                                  IF val.t = "err" THEN val ELSE Err("ValueError"),
                                  <<>>)
            /\ UNCHANGED <<_n, _vars, problems, ctor, thr>>

\* problem.minimize(), from the optimizer's return: the optimizer returns some
\* vector of the guess's length, converged or not; opt.x is written back and
\* opt is returned (ret.x is the returned object's x, ret.val its success)
MinimizeReturn ==
    \E p \in 1..Len(problems) : \E x \in Vectors(problems[p]) :
        \E success \in {0, 1} :
            LET opt == [x |-> x, success |-> success]
            IN  /\ optimizer[p].pc = "running"
                /\ heap' = _assign_to_variables(heap, problems[p]._variables, opt.x)
                /\ written' = WrittenBy(written, problems[p]._variables, opt.x)
                /\ optimizer' = [optimizer EXCEPT ![p] = IdleOptimizer]
                /\ ret' = Ret("minimize", p, opt.x, Num(opt.success), <<>>)
                /\ UNCHANGED <<_n, _vars, problems, ctor, thr>>

Next ==
    \/ NewVariable \/ NewArray
    \/ Comparison
    \/ NewProblem \/ InitialGuess
    \/ ObjFun \/ ConFun
    \/ MinimizeCall \/ MinimizeReturn

Spec == Init /\ [][Next]_vars

-----------------------------------------------------------------------------
(* Two optimization runs in two threads.  Nothing in a closure prevents a  *)
(* thread switch between its two statements, so each is a step of its own. *)

\* both runs take the default tol
NewConcProblem == NewProblemUpTo(MaxConcProblems, {DefaultTol})

Shares(p, q) ==
    \E i \in 1..Len(problems[p]._variables), j \in 1..Len(problems[q]._variables) :
        problems[p]._variables[i] = problems[q]._variables[j]

\* thread t enters the objective closure of a Problem with x and runs
\* self._assign_to_variables(x)
ClosureAssign ==
    \E t \in Threads : \E p \in 1..Len(problems) : \E x \in Vectors(problems[p]) :
        /\ thr[t].pc = "idle"
        /\ heap' = _assign_to_variables(heap, problems[p]._variables, x)
        /\ written' = WrittenBy(written, problems[p]._variables, x)
        /\ thr' = [u \in Threads |->
                    IF u = t
                    THEN [pc |-> "assigned", p |-> p, x |-> x, dirty |-> FALSE]
                    ELSE IF thr[u].pc = "assigned" /\ Shares(thr[u].p, p)
                    THEN [thr[u] EXCEPT !.dirty = TRUE]
                    ELSE thr[u]]
        /\ ret' = RetI("obj_fun.assign", p, t, x, NoneV, FALSE)
        /\ UNCHANGED <<_n, _vars, problems, ctor, optimizer>>

\* thread t runs `return expression.value` and leaves the closure
ClosureEvaluate ==
    \E t \in Threads :
        /\ thr[t].pc = "assigned"
        /\ ret' = RetI("obj_fun", thr[t].p, t, thr[t].x,
                       obj_fun_value(problems[thr[t].p], heap), thr[t].dirty)
        /\ thr' = [thr EXCEPT ![t] = IdleThread]
        /\ UNCHANGED <<GraphVars, problems, ctor, optimizer>>

NextConc ==
    \/ NewVariable \/ NewArray
    \/ NewConcProblem
    \/ ClosureAssign \/ ClosureEvaluate

SpecConc == Init /\ [][NextConc]_vars

-----------------------------------------------------------------------------
(* Properties of the program.                                               *)

RECURSIVE ReachVars(_, _)
\* the Variables reachable from an object through operands and array elements
ReachVars(h, hp) ==
    LET Of(opd) == IF opd.t = "ref" THEN ReachVars(opd.v, hp) ELSE {}
    IN  CASE IsVariable(hp[h]) -> {h}
          [] IsArray(hp[h]) ->
                UNION {Of(hp[h].elems[i]) : i \in 1..Len(hp[h].elems)}
          [] OTHER -> Of(hp[h].left) \cup Of(hp[h].right)

RECURSIVE ScalarDefined(_), Meaning(_)
\* an arithmetic expression over numbers and Variables that have been given one
ScalarDefined(h) ==
    LET Leaf(opd) == opd.t = "num" \/ (opd.t = "ref" /\ ScalarDefined(opd.v))
    IN  CASE IsVariable(heap[h]) -> written[h].t = "num"
          [] heap[h].kind = "Expression" ->
                /\ Leaf(heap[h].right)
                /\ heap[h].method \in Unary \/ Leaf(heap[h].left)
          [] OTHER -> FALSE

\* its number, at the values most recently written to the Variables
Meaning(h) ==
    LET Of(opd) == IF opd.t = "ref" THEN Meaning(opd.v) ELSE opd.v
        o == heap[h]
    IN  CASE IsVariable(o) -> written[h].n
          [] o.method = "add" -> Of(o.left) + Of(o.right)
          [] o.method = "sub" -> Of(o.left) - Of(o.right)
          [] o.method = "mul" -> Of(o.left) * Of(o.right)
          [] o.method = "neg" -> 0 - Of(o.right)
          [] o.method = "abs" -> AbsInt(Of(o.right))

Range(s) == {s[i] : i \in 1..Len(s)}

C2_ValueUsesLatestWrite ==
    (ret.op = "value" /\ heap[ret.h].kind = "Expression" /\ ScalarDefined(ret.h))
        => ret.val = Num(Meaning(ret.h))

C2_Witness ==
    /\ ret.op = "value"
    /\ heap[ret.h].kind = "Expression"
    /\ heap[ret.h].method = "add"
    /\ ScalarDefined(ret.h)
    /\ heap[ret.h].left.t = "ref" /\ heap[ret.h].right.t = "ref"
    /\ heap[ret.h].left # heap[ret.h].right
    /\ \E h \in ReachVars(ret.h, heap) : written[h].by = "setter"
    /\ ret.val = Num(Meaning(ret.h))

\* C3: after minimize() returns the optimizer's result object (ret.x its x,
\* ret.val its success), converged or not, the i-th discovered Variable holds
\* entry i of the vector the optimizer returned.
C3_WriteBackPositional ==
    ret.op = "minimize" =>
        /\ Len(ret.x) = Len(problems[ret.h]._variables)
        /\ \A i \in 1..Len(problems[ret.h]._variables) :
                heap[problems[ret.h]._variables[i]].value = SNum(ret.x[i])

C3_Witness ==
    /\ ret.op = "minimize"
    /\ ret.val = Num(0)
    /\ Len(problems[ret.h]._variables) >= 1
    /\ \E i \in 1..Len(problems[ret.h]._variables) :
        /\ written[problems[ret.h]._variables[i]].by = "assign"
        /\ heap[problems[ret.h]._variables[i]].value = SNum(ret.x[i])

NonNeg(s) == s.t = "num" /\ s.n >= 0
IsZero(s) == s.t = "num" /\ s.n = 0
Holds(s) == s.t = "num" /\ s.n = 1

\* C4: a constraint closure assigns x to the discovered Variables and returns
\* left - right for == and >=, right - left for <=; so an inequality
\* closure's result is >= 0 exactly when the relation holds, an equality
\* closure's is 0 exactly when the sides are equal; == is tagged eq, >= and <= ineq.
C4_ConstraintClosure ==
    ret.op = "constraint_fun" =>
        LET P == problems[ret.h]
            f == P._constraint_funs[ret.i]
            c == heap[f.constraint]
            L == value_of(c.left, heap)
            R == value_of(c.right, heap)
            rel == value(f.constraint, heap)
        IN  /\ \A i \in 1..Len(P._variables) :
                (\A j \in (i + 1)..Len(P._variables) :
                        P._variables[j] # P._variables[i])
                    => heap[P._variables[i]].value = SNum(ret.x[i])
            /\ f.type = "eq" <=> c.symbol = "=="
            /\ f.type = "ineq" <=> c.symbol \in {">=", "<="}
            /\ ret.val.t # "err" =>
                /\ ret.val = IF c.symbol = "<=" THEN Apply("sub", R, L)
                             ELSE Apply("sub", L, R)
                /\ Len(AsSeq(ret.val)) = Len(AsSeq(rel))
                /\ \A k \in 1..Len(AsSeq(ret.val)) :
                        IF f.type = "ineq"
                        THEN NonNeg(AsSeq(ret.val)[k]) <=> Holds(AsSeq(rel)[k])
                        ELSE IsZero(AsSeq(ret.val)[k]) <=> Holds(AsSeq(rel)[k])

C4_Witness ==
    /\ ret.op = "constraint_fun"
    /\ Len(ret.x) > 0
    /\ heap[problems[ret.h]._constraint_funs[ret.i].constraint].symbol = "<="
    /\ ret.val.t = "num"
    /\ ret.val.n < 0

CompareOps == {"__eq__", "__le__", "__lt__", "__ge__", "__gt__"}

Flags(o) == <<is_equality(o), is_greater_than(o), is_less_than(o)>>

\* C5: every comparison operator returns a Constraint with exactly one of
\* is_equality, is_greater_than, is_less_than: == the first, >= and > the
\* second, <= and < the third.
C5_ComparisonClassified ==
    ret.op \in CompareOps =>
        /\ IsConstraint(heap[ret.h])
        /\ Flags(heap[ret.h]) =
                CASE ret.op = "__eq__" -> <<TRUE, FALSE, FALSE>>
                  [] ret.op \in {"__ge__", "__gt__"} -> <<FALSE, TRUE, FALSE>>
                  [] ret.op \in {"__le__", "__lt__"} -> <<FALSE, FALSE, TRUE>>

C5_Witness ==
    /\ ret.op = "__lt__"
    /\ IsConstraint(heap[ret.h])
    /\ is_less_than(heap[ret.h])

\* C6: ids are pairwise distinct, the registry at index v.id is v, a new
\* Variable's id is greater than every earlier id, and the registry only grows.
C6_IdsAndRegistry ==
    /\ [](/\ \A g, h \in VarHandles(heap) : g # h => heap[g].id # heap[h].id
          /\ \A h \in VarHandles(heap) :
                /\ heap[h].id \in 0..(Len(_vars) - 1)
                /\ _vars[heap[h].id + 1] = h)
    /\ [][/\ Len(_vars') >= Len(_vars)
          /\ SubSeq(_vars', 1, Len(_vars)) = _vars
          /\ \A g \in VarHandles(heap) :
                /\ g \in VarHandles(heap')
                /\ heap'[g].id = heap[g].id
                /\ \A h \in VarHandles(heap') \ VarHandles(heap) :
                        heap'[h].id > heap[g].id]_vars

C6_Witness ==
    /\ Cardinality(VarHandles(heap)) >= 2
    /\ \E h \in VarHandles(heap) : heap[h].id + 1 # h

GuessOf(w) == IF w.t = "None" THEN 1 ELSE w.n

\* C7: the initial guess has one entry per discovered Variable, in order:
\* its value when set (0 included), 1.0 when unset; computing it changes no
\* Variable.
C7_InitialGuess ==
    /\ [](ret.op \in {"_initial_guess", "minimize.call"} =>
            LET P == problems[ret.h]
            IN  /\ Len(ret.x) = Len(P._variables)
                /\ \A i \in 1..Len(P._variables) :
                        ret.x[i] = GuessOf(written[P._variables[i]]))
    /\ [][ret'.op = "_initial_guess" => heap' = heap]_vars

C7_Witness ==
    /\ ret.op = "_initial_guess"
    /\ \E i, j \in 1..Len(ret.x) :
        /\ heap[problems[ret.h]._variables[i]].value = SNum(0)
        /\ ret.x[i] = 0
        /\ heap[problems[ret.h]._variables[j]].value = SNone
        /\ ret.x[j] = 1

\* C8: the tolerance given to Problem is the one the optimizer is called with.
C8_TolPassedThrough ==
    \A p \in 1..Len(problems) :
        optimizer[p].pc = "running" => optimizer[p].tol = ctor[p].tol

\* the objective at x: every discovered Variable at its entry of x
AtVector(P, x, hp) ==
    [h \in 1..Len(hp) |->
        IF h \in Range(P._variables)
        THEN [hp[h] EXCEPT !.value =
                SNum(x[CHOOSE i \in 1..Len(x) :
                        /\ P._variables[i] = h
                        /\ \A j \in (i + 1)..Len(x) : P._variables[j] # h])]
        ELSE hp[h]]

\* C9: with the two steps of the objective closure interleaved between two
\* runs, a closure's result differs from the objective at its own vector only
\* if the other run assigned a shared Variable in between (and it can differ).
C9_StaleOnlyWhenInterleaved ==
    ret.op = "obj_fun" =>
        (ret.val # value(problems[ret.h]._obj,
                         AtVector(problems[ret.h], ret.x, heap))
            => ret.dirty)

C9_Witness ==
    /\ ret.op = "obj_fun"
    /\ ret.dirty
    /\ \E u \in Threads :
        /\ u # ret.i
        /\ thr[u].pc = "assigned"
        /\ thr[u].p # ret.h
        /\ problems[thr[u].p]._obj # problems[ret.h]._obj
        /\ Shares(thr[u].p, ret.h)
    /\ ret.val.t = "arr"
    /\ ret.val # value(problems[ret.h]._obj, AtVector(problems[ret.h], ret.x, heap))

ProblemOps == {"obj_fun", "constraint_fun", "minimize", "minimize.call",
               "_initial_guess"}

\* C10: a Problem's vector covers Variables of the objective only; a Variable
\* that only a constraint mentions keeps its value through every closure
\* call and minimize().
C10_ConstraintOnlyVariablesKept ==
    /\ [](\A p \in 1..Len(problems) :
            Range(problems[p]._variables) \subseteq ReachVars(problems[p]._obj, heap))
    /\ [][ret'.op \in ProblemOps =>
            \A h \in VarHandles(heap) :
                h \notin ReachVars(problems[ret'.h]._obj, heap)
                    => heap'[h].value = heap[h].value]_vars

C10_Witness ==
    /\ ret.op = "constraint_fun"
    /\ ret.val.t = "num"
    /\ \E h \in ReachVars(problems[ret.h]._constraint_funs[ret.i].constraint, heap) :
        /\ h \notin ReachVars(problems[ret.h]._obj, heap)
        /\ written[h].by = "init"
        /\ heap[h].value = SNum(written[h].n)

====
